---- MODULE Spec2Model ----
(***************************************************************************)
(* The UE session task of the GTP-C simulator (src/src/session.cpp): one   *)
(* session driving the job sequence of a scenario, run by timer wakes and  *)
(* by inbound datagrams.  Handlers are operators from a session record to  *)
(* a session record, composed as the code composes its calls; one run() is *)
(* one step.                                                               *)
(***************************************************************************)
EXTENDS Integers, Sequences, FiniteSets, TLC

\* ------------------------------------------------------------- bounds ---
\* n3-requests and t3-timer of the configuration read by the constructor.
N3Req == 2
T3Time == 2
\* Largest sequence number carried by an inbound datagram.
MaxSeq == 2
\* Number of inbound datagrams delivered to the session.
MaxDgrams == 2
\* How many jobs past the end of m_jobSeq a session that did not complete
\* is still run on before the model stops following it.
MaxOverrun == 0

DeadCallWait == T3Time + 1
MaxTime == (N3Req + 1) * T3Time + 1
SeqModulus == 2^24

\* ---------------------------------------------------------- vocabulary ---
CS_REQ == "CS_REQ"
CS_RSP == "CS_RSP"
MB_REQ == "MB_REQ"
MB_RSP == "MB_RSP"
MsgTypes == {CS_REQ, CS_RSP, MB_REQ, MB_RSP}
NoMsg == "NoMsg"

GTP_MSG_CAT_REQ == "REQ"
GTP_MSG_CAT_RSP == "RSP"
gtpGetMsgCategory(t) == IF t \in {CS_REQ, MB_REQ} THEN GTP_MSG_CAT_REQ ELSE GTP_MSG_CAT_RSP

JOB_TYPE_SEND == "SEND"
JOB_TYPE_RECV == "RECV"
JOB_TYPE_WAIT == "WAIT"
JOB_TYPE_INV == "INV"
\* What a read through a stray Job pointer may give besides a job: a fault.
FAULT == "FAULT"

WAITING_FOR_RSP == "WAITING_FOR_RSP"
SCN_COMPLETE == "SCN_COMPLETE"

ROK == "ROK"
ROK_OVER == "ROK_OVER"
ERR_MAX_RETRY_EXCEEDED == "ERR_MAX_RETRY_EXCEEDED"
RFAILED == "RFAILED"

\* What can fail in a run: the transport refuses the datagram, setSenderFteid
\* fails, the allocation of a PDN or of its control tunnel fails.
NoFault == "none"
FaultSend == "send"
FaultEncode == "encode"
FaultCreate == "create"
FaultKinds == {FaultSend, FaultEncode, FaultCreate}

TASK_STATE_RUNNING == "RUNNING"
TASK_STATE_PAUSED == "PAUSED"
TASK_STATE_STOPPED == "STOPPED"

\* A member the constructor leaves unassigned: a message type, a number
\* (sequence number, connection id, Job pointer, PDN pointer).
UNINIT == "UNINIT"
UNINIT_NUM == 0 - 1
\* The null UdpData_t pointer, and run()'s arg == NULL.
NULL == [buf |-> [type |-> "NULL", seq |-> UNINIT_NUM], connId |-> UNINIT_NUM, peerEp |-> "none"]

\* Where a datagram comes from: the default socket and peer, or a socket
\* that accepted the flow of another peer.
DefaultPeer == "peerA"
Sources == {[connId |-> 0, peerEp |-> DefaultPeer], [connId |-> 1, peerEp |-> "peerB"]}
JunkEp == "junk"

Send(m) == [type |-> JOB_TYPE_SEND, msg |-> m, wait |-> 0]
Recv(m) == [type |-> JOB_TYPE_RECV, msg |-> m, wait |-> 0]
Wait(w) == [type |-> JOB_TYPE_WAIT, msg |-> NoMsg, wait |-> w]

ScnOutbound == "ScnOutbound"
ScnOutbound2 == "ScnOutbound2"
ScnInbound == "ScnInbound"
ScnEndWait == "ScnEndWait"
ScnEndRecv == "ScnEndRecv"
ScenarioIds == {ScnOutbound, ScnOutbound2, ScnInbound, ScnEndWait, ScnEndRecv}

\* m_jobSeq of the scenarios a session is built on.
Scenarios(id) ==
  CASE id = ScnOutbound  -> <<Send(CS_REQ), Recv(CS_RSP)>>
    [] id = ScnOutbound2 -> <<Send(CS_REQ), Recv(CS_RSP), Send(MB_REQ), Recv(MB_RSP)>>
    [] id = ScnInbound   -> <<Recv(CS_REQ), Send(CS_RSP), Recv(MB_REQ), Send(MB_RSP)>>
    [] id = ScnEndWait   -> <<Send(CS_REQ), Recv(CS_RSP), Wait(1)>>
    [] id = ScnEndRecv   -> <<Recv(CS_REQ), Send(CS_RSP), Recv(MB_REQ)>>

\* What the memory behind m_jobSeq's end may read as: where only the message
\* type of the job is read, and where run() dispatches on the job.
GarbageMsgs ==
  {[type |-> FAULT, msg |-> NoMsg, wait |-> 0]} \cup
  {[type |-> JOB_TYPE_INV, msg |-> m, wait |-> 0] : m \in MsgTypes}
GarbageJobs ==
  {[type |-> FAULT, msg |-> NoMsg, wait |-> 0],
   [type |-> JOB_TYPE_INV, msg |-> NoMsg, wait |-> 0],
   [type |-> JOB_TYPE_WAIT, msg |-> NoMsg, wait |-> 1]} \cup
  {[type |-> JOB_TYPE_SEND, msg |-> m, wait |-> 0] : m \in MsgTypes}
NoGarbage == [type |-> JOB_TYPE_INV, msg |-> NoMsg, wait |-> 0]

\* Inbound datagrams (UdpData_t): decoded header, socket, source.
Datagrams ==
  {[buf |-> [type |-> t, seq |-> q], connId |-> src.connId, peerEp |-> src.peerEp] :
      t \in MsgTypes, q \in 0..MaxSeq, src \in Sources}

ZeroCounters ==
  [numSnd |-> 0, numSndRetrans |-> 0, numRcv |-> 0, numRcvRetrans |-> 0,
   numTimeOut |-> 0, numUnexp |-> 0]

VARIABLES
  scn,             \* the scenario the session runs (m_pScn), fixed at construction
  now,             \* getMilliSeconds()
  m_currTaskIndx,  \* index of the current job in m_jobSeq
  m_bitmask,       \* subset of {WAITING_FOR_RSP, SCN_COMPLETE}
  m_retryCnt,
  m_currUeProc,    \* [connId, seqNumber, sentMsg]
  m_prevUeProc,    \* [connId, seqNumber, reqType, rspType, procTask, sentMsg]
  m_currReqType,
  m_wakeTime,
  m_lastRunTime,
  m_taskState,     \* Task::m_taskState
  m_pdnLst,        \* sequence of PDNs, each with its control tunnel's m_peerEp
  m_pCurrPdn,      \* index into m_pdnLst, UNINIT before the first PDN
  jobs,            \* the counters of the scenario's jobs, by job index
  stats,           \* Stats: created, sessions, succ, fail
  g_seqNum,        \* the outbound sequence number generator
  ret,             \* what the last run() returned
  life,            \* "live", "over" (run returned ROK_OVER), "crashed", or
                   \* "thrown" (an exception left run())
  event,           \* the last step: its kind and the header of its datagram
  dgrams,          \* number of datagrams delivered so far
  wire,            \* what was handed to sendMsg: the last datagram, how many, when
  jobTx,           \* per job: the datagram of its first transmission and when
  lastAccept,      \* the last response accepted as expected, and for which job
  ueSessions,      \* every UeSession created so far, by m_sessionId
  s_ueSessionMap,  \* IMSI -> session, NoSsn where the key is absent
  cTuns            \* every GtpcTun allocated so far

vars == <<scn, now, m_currTaskIndx, m_bitmask, m_retryCnt, m_currUeProc,
          m_prevUeProc, m_currReqType, m_wakeTime, m_lastRunTime, m_taskState,
          m_pdnLst, m_pCurrPdn, jobs, stats, g_seqNum, ret, life, event, dgrams,
          wire, jobTx, lastAccept, ueSessions, s_ueSessionMap, cTuns>>

m_jobSeq == Scenarios(scn)
JobCount == Len(m_jobSeq)
JobIdx == 0..(JobCount - 1)

\* The session as one record, as the handlers below pass it along.
Cur ==
  [m_currTaskIndx |-> m_currTaskIndx, m_bitmask |-> m_bitmask,
   m_retryCnt |-> m_retryCnt, m_currUeProc |-> m_currUeProc,
   m_prevUeProc |-> m_prevUeProc, m_currReqType |-> m_currReqType,
   m_wakeTime |-> m_wakeTime, m_lastRunTime |-> m_lastRunTime,
   m_taskState |-> m_taskState, m_pdnLst |-> m_pdnLst, m_pCurrPdn |-> m_pCurrPdn,
   jobs |-> jobs, stats |-> stats, g_seqNum |-> g_seqNum, ret |-> ret,
   crashed |-> FALSE, thrown |-> FALSE, fault |-> NoFault, strayEp |-> JunkEp,
   wire |-> wire, jobTx |-> jobTx, lastAccept |-> lastAccept]

\* ------------------------------------------------------------- helpers ---
GSIM_CHK_MASK(s, f) == f \in s.m_bitmask
GSIM_SET_MASK(s, f) == [s EXCEPT !.m_bitmask = @ \cup {f}]
GSIM_UNSET_MASK(s, f) == [s EXCEPT !.m_bitmask = @ \ {f}]

Crash(s) == [s EXCEPT !.crashed = TRUE]

\* throw: control leaves every caller up to the first handler; there is none
\* between the throw sites and the caller of run().
Throw(s) == [s EXCEPT !.crashed = TRUE, !.thrown = TRUE]

\* m_jobSeq[i] as operator[] reads it: past the end it reads whatever lies
\* there, g.
JobAt(i, g) == IF i < JobCount THEN m_jobSeq[i + 1] ELSE g

\* A counter of the job a Job pointer refers to; through a pointer that is
\* stray or unassigned the write lands outside the scenario's jobs.
IncJob(s, i, c) ==
  IF i \in JobIdx THEN [s EXCEPT !.jobs[i][c] = @ + 1] ELSE s

\* a == b where either side may be an unassigned member: u is what the
\* comparison then gives.
EqType(a, b, u) == IF a = UNINIT THEN u ELSE a = b
EqNum(a, b, u) == IF a = UNINIT_NUM THEN u ELSE a = b
LtNum(a, b, u) == IF a = UNINIT_NUM THEN u ELSE a < b

\* sendMsg(connId, peerEp, buf): the datagram goes out, in the run that
\* started at m_lastRunTime, unless the transport refuses it; the status it
\* returns is not looked at by any caller.
sendMsg(s, d) ==
  IF s.fault = FaultSend THEN [s EXCEPT !.wire.refused = @ + 1]
  ELSE [s EXCEPT !.wire.last = d, !.wire.count = @ + 1, !.wire.time = s.m_lastRunTime]

\* Task::pause, Task::stop, Task::resumeTask
pause(s) == [s EXCEPT !.m_taskState = TASK_STATE_PAUSED]
stop(s) == [s EXCEPT !.m_taskState = TASK_STATE_STOPPED]
resumeTask(s) == [s EXCEPT !.m_taskState = TASK_STATE_RUNNING]

incStats(s, c) == [s EXCEPT !.stats[c] = @ + 1]
decStats(s, c) == [s EXCEPT !.stats[c] = @ - 1]

UE_SSN_FINISH_TASK(s) == [s EXCEPT !.m_currTaskIndx = @ + 1]
IS_SCN_COMPLETED(s) == s.m_currTaskIndx = JobCount

\* The control tunnel's m_peerEp of the PDN p points to; through a pointer
\* that was never assigned the read gives junk.
TunPeerEp(s, p) == IF p \in 1..Len(s.m_pdnLst) THEN s.m_pdnLst[p].peerEp ELSE s.strayEp

\* generateSeqNum(peer, REQ): the next outbound sequence number, 24 bits.
generateSeqNum(s) == (s.g_seqNum + 1) % SeqModulus

\* --------------------------------------------------- PDNs and tunnels ---
\* createPdn() followed by m_pdnLst.push_back(pPdn); m_pCurrPdn = pPdn
createPdn(s) ==
  IF s.fault = FaultCreate THEN Throw(s)
  ELSE [s EXCEPT !.m_pdnLst = Append(@, [peerEp |-> "none"]),
                 !.m_pCurrPdn = Len(s.m_pdnLst) + 1]

\* decAndStoreGtpcIncMsg leaving the tunnel's peer endpoint as it was.
decAndStoreGtpcIncMsg_keep(s, p, ep, f) ==
  IF p \in 1..Len(s.m_pdnLst) THEN s
  ELSE IF f THEN Crash(s) ELSE s

\* decAndStoreGtpcIncMsg: the source endpoint of the datagram becomes the
\* tunnel's peer endpoint.  f: the write through an unassigned PDN pointer
\* faults.
decAndStoreGtpcIncMsg(s, p, ep, f) ==
  IF p \in 1..Len(s.m_pdnLst) THEN [s EXCEPT !.m_pdnLst[p].peerEp = ep]
  ELSE IF f THEN Crash(s) ELSE [s EXCEPT !.strayEp = ep]

\* encGtpcOutMsg: the header of the template gets the procedure's sequence
\* number; reads pPdn->pCTun.
encGtpcOutMsg(s, msgType) == [type |-> msgType, seq |-> s.m_currUeProc.seqNumber]

\* encGtpcOutMsg throws what setSenderFteid returned, for the two messages
\* that carry a sender F-TEID.
setSenderFteid(s) == IF s.fault = FaultEncode THEN RFAILED ELSE ROK
encThrows(s, msgType) == msgType \in {CS_REQ, CS_RSP} /\ setSenderFteid(s) # ROK

\* --------------------------------------------------------- completion ---
handleCompletedTask(s) ==
  LET s1 == decStats(incStats(s, "succ"), "sessions")
      s2 == GSIM_SET_MASK(s1, SCN_COMPLETE)
  IN  pause([s2 EXCEPT !.m_wakeTime = s.m_lastRunTime + DeadCallWait])

\* ---------------------------------------------------------- send path ---
handleOutReqMsg(s, job, f) ==
  LET isCs == job.msg = CS_REQ
      s1 == IF isCs THEN createPdn(incStats(incStats(s, "created"), "sessions")) ELSE s
      pPdn == s1.m_pCurrPdn
      s2 == [s1 EXCEPT !.m_currUeProc.seqNumber = generateSeqNum(s1),
                       !.g_seqNum = generateSeqNum(s1),
                       !.m_currReqType = job.msg]
      pNwData == [buf |-> encGtpcOutMsg(s2, job.msg), connId |-> 0, peerEp |-> DefaultPeer]
      s3 == IncJob(sendMsg(s2, pNwData), s2.m_currTaskIndx, "numSnd")
      s4 == [s3 EXCEPT !.m_currUeProc.sentMsg = pNwData,
                       !.jobTx = IF s3.m_currTaskIndx \in JobIdx
                                 THEN [@ EXCEPT ![s3.m_currTaskIndx] =
                                          [d |-> pNwData, time |-> s3.m_lastRunTime]]
                                 ELSE @]
      s5 == GSIM_SET_MASK(s4, WAITING_FOR_RSP)
  IN  IF s1.crashed THEN s1
      ELSE IF pPdn \notin 1..Len(s1.m_pdnLst) /\ f THEN Crash(s1)
      ELSE IF encThrows(s2, job.msg) THEN Throw(s2)
      ELSE [s5 EXCEPT !.m_wakeTime = s.m_lastRunTime + T3Time, !.ret = ROK]

\* handleOutReqTimeout giving up one retransmission later.
handleOutReqTimeout_gt(s) ==
  IF s.m_retryCnt > N3Req
  THEN [s EXCEPT !.m_currUeProc.sentMsg = NULL, !.ret = ERR_MAX_RETRY_EXCEEDED]
  ELSE IF s.m_currUeProc.sentMsg = NULL THEN Crash(s)
  ELSE LET s1 == sendMsg(s, s.m_currUeProc.sentMsg)
           s2 == IncJob(s1, s1.m_currTaskIndx, "numSndRetrans")
       IN  pause([s2 EXCEPT !.m_retryCnt = @ + 1,
                            !.m_wakeTime = s.m_lastRunTime + T3Time,
                            !.ret = ROK])

\* handleOutReqTimeout counting the last retransmission as the timeout.
handleOutReqTimeout_early(s) ==
  IF s.m_retryCnt + 1 >= N3Req
  THEN [s EXCEPT !.m_currUeProc.sentMsg = NULL, !.ret = ERR_MAX_RETRY_EXCEEDED]
  ELSE IF s.m_currUeProc.sentMsg = NULL THEN Crash(s)
  ELSE LET s1 == sendMsg(s, s.m_currUeProc.sentMsg)
           s2 == IncJob(s1, s1.m_currTaskIndx, "numSndRetrans")
       IN  pause([s2 EXCEPT !.m_retryCnt = @ + 1,
                            !.m_wakeTime = s.m_lastRunTime + T3Time,
                            !.ret = ROK])

handleOutReqTimeout(s) ==
  IF s.m_retryCnt >= N3Req
  THEN [s EXCEPT !.m_currUeProc.sentMsg = NULL, !.ret = ERR_MAX_RETRY_EXCEEDED]
  ELSE IF s.m_currUeProc.sentMsg = NULL THEN Crash(s)
  ELSE LET s1 == sendMsg(s, s.m_currUeProc.sentMsg)
           s2 == IncJob(s1, s1.m_currTaskIndx, "numSndRetrans")
       IN  pause([s2 EXCEPT !.m_retryCnt = @ + 1,
                            !.m_wakeTime = s.m_lastRunTime + T3Time,
                            !.ret = ROK])

handleOutRspMsg(s, job, f) ==
  LET pPdn == s.m_pCurrPdn
      pNwData == [buf |-> encGtpcOutMsg(s, job.msg),
                  connId |-> s.m_currUeProc.connId,
                  peerEp |-> TunPeerEp(s, pPdn)]
      s1 == IncJob(sendMsg(s, pNwData), s.m_currTaskIndx, "numSnd")
      s2 == [s1 EXCEPT !.m_prevUeProc.sentMsg = pNwData,
                       !.m_prevUeProc.rspType = job.msg,
                       !.jobTx = IF s1.m_currTaskIndx \in JobIdx
                                 THEN [@ EXCEPT ![s1.m_currTaskIndx] =
                                          [d |-> pNwData, time |-> s1.m_lastRunTime]]
                                 ELSE @,
                       !.ret = ROK]
      s3 == UE_SSN_FINISH_TASK(s2)
  IN  IF pPdn \notin 1..Len(s.m_pdnLst) /\ f THEN Crash(s)
      ELSE IF encThrows(s, job.msg) THEN Throw(s)
      ELSE IF IS_SCN_COMPLETED(s3) THEN handleCompletedTask(s3) ELSE s3

\* handleSend after handleOutReqTimeout has returned with the session as r.
handleSendTimedOut(r) ==
  IF r.crashed THEN r
  ELSE IF r.ret = ERR_MAX_RETRY_EXCEEDED
  THEN [incStats(IncJob(r, r.m_currTaskIndx, "numTimeOut"), "fail")
          EXCEPT !.m_currUeProc.sentMsg = NULL, !.ret = ROK_OVER]
  ELSE r

\* handleSend after handleOutReqMsg has returned with the session as r.
handleSendReqSent(r) ==
  IF r.crashed THEN r
  ELSE IF r.ret # ROK THEN [r EXCEPT !.ret = ROK_OVER] ELSE pause(r)

\* handleSend after handleOutRspMsg has returned with the session as r.
handleSendRspSent(r) ==
  IF r.crashed THEN r
  ELSE IF r.ret # ROK THEN [r EXCEPT !.ret = ROK_OVER] ELSE stop(r)

\* handleSend with m_currTask read as job.
handleSend(s, job, f) ==
  IF GSIM_CHK_MASK(s, WAITING_FOR_RSP)
  THEN handleSendTimedOut(handleOutReqTimeout(s))
  ELSE IF job.msg = NoMsg THEN Crash(s)
  ELSE IF gtpGetMsgCategory(job.msg) = GTP_MSG_CAT_REQ
  THEN handleSendReqSent(handleOutReqMsg(s, job, f))
  ELSE handleSendRspSent(handleOutRspMsg(s, job, f))

handleWait(s, job) ==
  pause(UE_SSN_FINISH_TASK([s EXCEPT !.m_wakeTime = s.m_lastRunTime + job.wait,
                                     !.ret = ROK]))

\* ----------------------------------------------------------------- run ---
\* run(NULL): the timer wake, also the call handleIncReqMsg makes on itself.
\* g is what m_currTask reads as when it points past the end of m_jobSeq.
runNull(s, g, f) ==
  LET s1 == resumeTask([s EXCEPT !.m_lastRunTime = now, !.ret = ROK])
      job == JobAt(s1.m_currTaskIndx, g)
  IN  IF GSIM_CHK_MASK(s1, SCN_COMPLETE) THEN s1
      ELSE IF job.type = FAULT THEN Crash(s1)
      ELSE IF job.type = JOB_TYPE_SEND THEN handleSend(s1, job, f)
      ELSE IF job.type = JOB_TYPE_WAIT THEN handleWait(s1, job)
      ELSE s1

\* ------------------------------------------------------- receive path ---
isExpectedReq(s, job, reqMsg, u) ==
  /\ job.msg = reqMsg.type
  /\ LtNum(s.m_currUeProc.seqNumber, reqMsg.seq, u)

\* isExpectedRsp asking for a later sequence number, as isExpectedReq does.
isExpectedRsp_later(s, task, rspMsg, u) ==
  /\ task.msg = rspMsg.type
  /\ LtNum(s.m_currUeProc.seqNumber, rspMsg.seq, u)

isExpectedRsp(s, task, rspMsg, u) ==
  /\ task.msg = rspMsg.type
  /\ EqNum(s.m_currUeProc.seqNumber, rspMsg.seq, u)

isPrevProcRsp(s, rspMsg, u) ==
  /\ s.m_currTaskIndx > 0
  /\ EqType(s.m_prevUeProc.rspType, rspMsg.type, u)
  /\ EqNum(s.m_prevUeProc.seqNumber, rspMsg.seq, u)

isPrevProcReq(s, reqMsg, u) ==
  /\ s.m_currTaskIndx > 0
  /\ EqType(s.m_prevUeProc.reqType, reqMsg.type, u)
  /\ EqNum(s.m_prevUeProc.seqNumber, reqMsg.seq, u)

\* The resend counted on the current job instead of the answered one.
resendPrevRsp_cur(s) ==
  LET s1 == IncJob(s, s.m_currTaskIndx, "numRcvRetrans")
  IN  IF s.m_prevUeProc.sentMsg = NULL THEN Crash(s1)
      ELSE sendMsg(s1, s.m_prevUeProc.sentMsg)

\* The resend of the previous procedure's response, in handleIncReqMsg and
\* in handleDeadCall.
resendPrevRsp(s) ==
  LET s1 == IncJob(s, s.m_prevUeProc.procTask, "numRcvRetrans")
  IN  IF s.m_prevUeProc.sentMsg = NULL THEN Crash(s1)
      ELSE sendMsg(s1, s.m_prevUeProc.sentMsg)

\* handleIncReqMsg after the run() it calls has returned with the session
\* as r.
handleIncReqRan(r) == IF r.crashed THEN r ELSE [r EXCEPT !.ret = ROK]

\* nd: the outcomes this run leaves open: g and gn are what the jobs at
\* m_currTaskIndx and m_currTaskIndx + 1 read as past the end of m_jobSeq, u1
\* and u2 what a comparison with an unassigned member gives, f whether the
\* use of an unassigned PDN pointer faults.
handleIncReqMsg(s, rcvdData, nd) ==
  LET rcvdReq == rcvdData.buf
      job == JobAt(s.m_currTaskIndx, nd.g)
  IN  IF job.type = FAULT \/ job.msg = NoMsg THEN Crash(s)
      ELSE IF isExpectedReq(s, job, rcvdReq, nd.u1)
      THEN LET s1 == IncJob(s, s.m_currTaskIndx, "numRcv")
               s2 == IF rcvdReq.type = CS_REQ
                     THEN createPdn(incStats(incStats(s1, "created"), "sessions"))
                     ELSE s1
               pdn == s2.m_pCurrPdn
               s3 == [s2 EXCEPT !.m_currUeProc.connId = rcvdData.connId,
                                !.m_currUeProc.seqNumber = rcvdReq.seq,
                                !.m_currReqType = rcvdReq.type]
               s4 == decAndStoreGtpcIncMsg(s3, pdn, rcvdData.peerEp, nd.f)
               s5 == [s4 EXCEPT !.m_prevUeProc.connId = s4.m_currUeProc.connId,
                                !.m_prevUeProc.seqNumber = s4.m_currUeProc.seqNumber,
                                !.m_prevUeProc.reqType = rcvdReq.type,
                                !.m_prevUeProc.procTask = s4.m_currTaskIndx]
           IN  IF s2.crashed THEN s2
               ELSE IF s4.crashed THEN s4
               ELSE handleIncReqRan(runNull(UE_SSN_FINISH_TASK(s5), nd.gn, nd.f))
      ELSE IF isPrevProcReq(s, rcvdReq, nd.u2)
      THEN [resendPrevRsp(s) EXCEPT !.ret = ROK]
      ELSE [IncJob(s, s.m_currTaskIndx, "numUnexp") EXCEPT !.ret = ROK]

handleIncRspMsg(s, rcvdData, nd) ==
  LET rspMsg == rcvdData.buf
      task == JobAt(s.m_currTaskIndx + 1, nd.gn)
  IN  IF task.type = FAULT \/ task.msg = NoMsg THEN Crash(s)
      ELSE IF isExpectedRsp(s, task, rspMsg, nd.u1)
      THEN LET s1 == [s EXCEPT !.m_prevUeProc.connId = rcvdData.connId,
                               !.m_prevUeProc.seqNumber = s.m_currUeProc.seqNumber,
                               !.m_prevUeProc.reqType = s.m_currReqType,
                               !.m_prevUeProc.rspType = rspMsg.type,
                               !.m_prevUeProc.procTask = s.m_currTaskIndx,
                               !.lastAccept = [sendIdx |-> s.m_currTaskIndx,
                                               seq |-> rspMsg.seq,
                                               assigned |-> s.m_currUeProc.seqNumber # UNINIT_NUM,
                                               waiting |-> GSIM_CHK_MASK(s, WAITING_FOR_RSP)]]
               s2 == UE_SSN_FINISH_TASK(s1)
               s3 == IncJob(s2, s2.m_currTaskIndx, "numRcv")
               s4 == decAndStoreGtpcIncMsg(s3, s3.m_pCurrPdn, rcvdData.peerEp, nd.f)
               s5 == GSIM_UNSET_MASK(s4, WAITING_FOR_RSP)
               s6 == UE_SSN_FINISH_TASK([s5 EXCEPT !.m_currUeProc.sentMsg = NULL])
           IN  IF s4.crashed THEN s4
               ELSE [(IF IS_SCN_COMPLETED(s6) THEN handleCompletedTask(s6) ELSE s6)
                       EXCEPT !.ret = ROK]
      ELSE IF isPrevProcRsp(s, rspMsg, nd.u2)
      THEN [IncJob(s, s.m_prevUeProc.procTask, "numRcvRetrans") EXCEPT !.ret = ROK]
      ELSE [IncJob(s, s.m_currTaskIndx, "numUnexp") EXCEPT !.ret = ROK]

\* handleRecv after the handler of the message has returned with the
\* session as r.
handleRecvDone(r) == IF r.crashed THEN r ELSE [r EXCEPT !.m_wakeTime = 0]

handleRecv(s, data, nd) ==
  handleRecvDone(IF gtpGetMsgCategory(data.buf.type) = GTP_MSG_CAT_REQ
                 THEN handleIncReqMsg(s, data, nd)
                 ELSE handleIncRspMsg(s, data, nd))

\* handleDeadCall: on the timer wake it returns ROK_OVER once the wake
\* time has come.
handleDeadCall(s, arg, nd) ==
  IF arg = NULL
  THEN IF s.m_lastRunTime >= s.m_wakeTime THEN [s EXCEPT !.ret = ROK_OVER] ELSE s
  ELSE IF gtpGetMsgCategory(arg.buf.type) = GTP_MSG_CAT_REQ
  THEN IF isPrevProcReq(s, arg.buf, nd.u2) THEN resendPrevRsp(s) ELSE s
  ELSE IF isPrevProcRsp(s, arg.buf, nd.u2)
       THEN IncJob(s, s.m_prevUeProc.procTask, "numRcvRetrans")
       ELSE s

run(s, arg, nd) ==
  LET s1 == resumeTask([s EXCEPT !.m_lastRunTime = now, !.ret = ROK])
  IN  IF GSIM_CHK_MASK(s1, SCN_COMPLETE)
      THEN [handleDeadCall(s1, arg, nd) EXCEPT !.ret = s1.ret]
      ELSE IF arg # NULL THEN handleRecv(s1, arg, nd)
      ELSE runNull(s, nd.g, nd.f)

\* ------------------------------------ sessions, their PDNs and tunnels ---
MaxSessions == 2
MaxPdns == 2
\* The number of slots of m_bearerVec, one for each EPS bearer id.
GTP_MAX_BEARERS == 2

Imsis == {"imsiA", "imsiB"}
GTP_IF_S11_C_MME == "GTP_IF_S11_C_MME"
GTP_IF_S5S8_C_SGW == "GTP_IF_S5S8_C_SGW"
IfTypes == {GTP_IF_S11_C_MME, GTP_IF_S5S8_C_SGW}

\* No session: the NULL of a UeSession pointer, the end() of the map.
NoSsn == 0

\* GtpcTun::GtpcTun, then m_pUeSession = pPdn->pUeSession: one reference,
\* that of the PDN it is created for.  released counts the deleteCTun calls.
GtpcTun(u) == [m_refCount |-> 1, m_pUeSession |-> u, freed |-> FALSE, released |-> 0]

\* getS11S4CTun: the control tunnel of the last PDN of the list, NULL (0)
\* for a session without PDNs.
getS11S4CTun(pdnLst) == IF pdnLst = <<>> THEN 0 ELSE pdnLst[Len(pdnLst)]

\* createCTun keeping the reference count of a tunnel it uses again.
createCTun_nocount(T, u) ==
  LET pCTun == getS11S4CTun(ueSessions[u].m_pdnLst)
  IN  IF ueSessions[u].ifType = GTP_IF_S11_C_MME /\ pCTun # 0
      THEN [tuns |-> T, pCTun |-> pCTun]
      ELSE [tuns |-> Append(T, GtpcTun(u)), pCTun |-> Len(T) + 1]

\* createCTun for a PDN of session u: the tunnels afterwards, and the one
\* the PDN refers to.
createCTun(T, u) ==
  LET pCTun == getS11S4CTun(ueSessions[u].m_pdnLst)
  IN  IF ueSessions[u].ifType = GTP_IF_S11_C_MME /\ pCTun # 0
      THEN [tuns |-> [T EXCEPT ![pCTun].m_refCount = @ + 1], pCTun |-> pCTun]
      ELSE [tuns |-> Append(T, GtpcTun(u)), pCTun |-> Len(T) + 1]

\* deleteCTun: one reference less, the tunnel freed with the last one.
deleteCTun(T, p) ==
  [T EXCEPT ![p].m_refCount = @ - 1,
            ![p].released = @ + 1,
            ![p].freed = @ \/ T[p].m_refCount - 1 = 0]

\* The loop of the destructor over m_pdnLst.
RECURSIVE deletePdns(_, _)
deletePdns(T, pdnLst) ==
  IF pdnLst = <<>> THEN T
  ELSE deletePdns(deleteCTun(T, Head(pdnLst)), Tail(pdnLst))

\* s_ueSessionMap.insert: a key that is present keeps its session.
MapInsert(m, imsi, u) == IF m[imsi] = NoSsn THEN [m EXCEPT ![imsi] = u] ELSE m
\* s_ueSessionMap.erase(key)
MapErase(m, imsi) == [m EXCEPT ![imsi] = NoSsn]

getUeSession(imsiKey) == s_ueSessionMap[imsiKey]

\* The EPS bearer ids a Bearer Context IE can carry, and the slot of
\* m_bearerVec that belongs to each.
Ebis == 1..GTP_MAX_BEARERS
GTP_BEARER_INDEX(ebi) == ebi - 1
BearerSlots == 0..(GTP_MAX_BEARERS - 1)

\* The Bearer Context IEs of a CS_REQ, as the set of their EBIs.
BearerCntxts == SUBSET Ebis

\* new GtpBearer(pPdn, ebi).  frees counts the deletes of the object and
\* staleReads the calls of getEbi() on it after a delete.
GtpBearer(pPdn, ebi) == [m_pPdn |-> pPdn, m_ebi |-> ebi, frees |-> 0, staleReads |-> 0]

\* What getEbi() returns on a bearer that has been deleted: the freed
\* memory may still hold m_ebi (KeptEbi) or hold any other value.
KeptEbi == 0
StaleEbis == {KeptEbi} \cup Ebis

\* The values a destruction of session record S can read from freed bearers:
\* a session without bearers reads none.
StaleReads(S) == IF S.bearers = <<>> THEN {KeptEbi} ELSE StaleEbis

\* The loop of createBearers over the Bearer Context IEs of a CS_REQ, for
\* PDN p of session record S.
RECURSIVE createBearers(_, _, _)
createBearers(S, p, cntxts) ==
  IF cntxts = {} THEN S
  ELSE LET ebi == CHOOSE e \in cntxts : \A o \in cntxts : e <= o
           pBearer == Len(S.bearers) + 1
       IN  createBearers(
             [S EXCEPT !.bearers = Append(@, GtpBearer(p, ebi)),
                       !.bearerMask[p] = @ \cup {ebi},
                       !.m_bearerVec[GTP_BEARER_INDEX(ebi)] = pBearer],
             p, cntxts \ {ebi})

\* One pass of the destructor's inner loop, from slot i on, for PDN p:
\* a bearer whose EBI is in the PDN's mask is deleted, and its slot keeps
\* the pointer.
RECURSIVE deleteBearers(_, _, _, _)
deleteBearers(S, p, i, stale) ==
  IF i \notin BearerSlots THEN S
  ELSE LET bearer == S.m_bearerVec[i]
       IN  IF bearer = 0 THEN deleteBearers(S, p, i + 1, stale)
           ELSE LET b == S.bearers[bearer]
                    dangling == b.frees > 0
                    ebi == IF dangling /\ stale # KeptEbi THEN stale ELSE b.m_ebi
                    S1 == IF dangling
                          THEN [S EXCEPT !.bearers[bearer].staleReads = @ + 1]
                          ELSE S
                    S2 == IF ebi \in S1.bearerMask[p]
                          THEN [S1 EXCEPT !.bearerMask[p] = @ \ {ebi},
                                          !.bearers[bearer].frees = @ + 1]
                          ELSE S1
                IN  deleteBearers(S2, p, i + 1, stale)

\* The destructor's loop over m_pdnLst, from PDN p on, on the bearers.
RECURSIVE deletePdnBearers(_, _, _)
deletePdnBearers(S, p, stale) ==
  IF p > Len(S.m_pdnLst) THEN S
  ELSE deletePdnBearers(deleteBearers(S, p, 0, stale), p + 1, stale)

SsnVars == <<scn, now, m_currTaskIndx, m_bitmask, m_retryCnt, m_currUeProc,
             m_prevUeProc, m_currReqType, m_wakeTime, m_lastRunTime, m_taskState,
             m_pdnLst, m_pCurrPdn, jobs, stats, g_seqNum, ret, life, event, dgrams,
             wire, jobTx, lastAccept>>

\* UeSession::createUeSession on a scenario of interface ifType.
createUeSession(imsiKey, ifType) ==
  /\ Len(ueSessions) < MaxSessions
  /\ ueSessions' = Append(ueSessions, [m_imsiKey |-> imsiKey, ifType |-> ifType,
                                       m_pdnLst |-> <<>>, live |-> TRUE,
                                       bearerMask |-> <<>>, bearers |-> <<>>,
                                       m_bearerVec |-> [i \in BearerSlots |-> 0]])
  /\ s_ueSessionMap' = MapInsert(s_ueSessionMap, imsiKey, Len(ueSessions) + 1)
  /\ UNCHANGED <<cTuns, SsnVars>>

\* pPdn = createPdn(); m_pdnLst.push_back(pPdn) in session u.  A PDN is
\* written as the tunnel its pCTun refers to.
PdnCreate(u) ==
  /\ ueSessions[u].live
  /\ Len(ueSessions[u].m_pdnLst) < MaxPdns
  /\ LET r == createCTun(cTuns, u)
     IN  /\ cTuns' = r.tuns
         /\ ueSessions' = [ueSessions EXCEPT ![u].m_pdnLst = Append(@, r.pCTun),
                                             ![u].bearerMask = Append(@, {})]
  /\ UNCHANGED <<s_ueSessionMap, SsnVars>>

\* A CS_REQ received by session u: handleIncReqMsg creates a PDN and
\* decAndStoreGtpcIncMsg creates the bearers the message declares in it.
CsReqBearers(u, cntxts) ==
  /\ ueSessions[u].live
  /\ Len(ueSessions[u].m_pdnLst) < MaxPdns
  /\ LET r == createCTun(cTuns, u)
         S == [ueSessions[u] EXCEPT !.m_pdnLst = Append(@, r.pCTun),
                                    !.bearerMask = Append(@, {})]
     IN  /\ cTuns' = r.tuns
         /\ ueSessions' = [ueSessions EXCEPT
                             ![u] = createBearers(S, Len(S.m_pdnLst), cntxts)]
  /\ UNCHANGED <<s_ueSessionMap, SsnVars>>

\* UeSession::~UeSession of session u.  The record keeps the PDN list the
\* session had.
DeleteSession(u) ==
  /\ ueSessions[u].live
  /\ s_ueSessionMap' = MapErase(s_ueSessionMap, ueSessions[u].m_imsiKey)
  /\ cTuns' = deletePdns(cTuns, ueSessions[u].m_pdnLst)
  /\ \E stale \in StaleReads(ueSessions[u]) :
       ueSessions' = [ueSessions EXCEPT
                        ![u] = [deletePdnBearers(ueSessions[u], 1, stale)
                                  EXCEPT !.live = FALSE]]
  /\ UNCHANGED SsnVars

\* ---------------------------------------------------- the state machine ---
\* UeSession::UeSession, on a scenario of the scenario loader.
Init ==
  /\ scn \in ScenarioIds
  /\ now = 0
  /\ m_currTaskIndx = 0
  /\ m_bitmask = {}
  /\ m_retryCnt = 0
  /\ m_currUeProc = [connId |-> UNINIT_NUM, seqNumber |-> UNINIT_NUM, sentMsg |-> NULL]
  /\ m_prevUeProc = [connId |-> UNINIT_NUM, seqNumber |-> UNINIT_NUM, reqType |-> UNINIT,
                     rspType |-> UNINIT, procTask |-> UNINIT_NUM, sentMsg |-> NULL]
  /\ m_currReqType = UNINIT
  /\ m_wakeTime = 0
  /\ m_lastRunTime = 0
  /\ m_taskState = TASK_STATE_RUNNING
  /\ m_pdnLst = <<>>
  /\ m_pCurrPdn = UNINIT_NUM
  /\ jobs = [i \in JobIdx |-> ZeroCounters]
  /\ stats = [created |-> 0, sessions |-> 0, succ |-> 0, fail |-> 0]
  /\ g_seqNum = 0
  /\ ret = ROK
  /\ life = "live"
  /\ event = [kind |-> "init", msg |-> NULL.buf, fault |-> NoFault]
  /\ dgrams = 0
  /\ wire = [last |-> NULL, count |-> 0, time |-> UNINIT_NUM, refused |-> 0]
  /\ jobTx = [i \in JobIdx |-> [d |-> NULL, time |-> UNINIT_NUM]]
  /\ lastAccept = [sendIdx |-> UNINIT_NUM, seq |-> UNINIT_NUM, assigned |-> FALSE,
                   waiting |-> FALSE]
  /\ ueSessions = <<>>
  /\ s_ueSessionMap = [i \in Imsis |-> NoSsn]
  /\ cTuns = <<>>

\* The session after a run: the scheduler deletes it when run() returned
\* ROK_OVER.
Commit(s) ==
  /\ m_currTaskIndx' = s.m_currTaskIndx
  /\ m_bitmask' = s.m_bitmask
  /\ m_retryCnt' = s.m_retryCnt
  /\ m_currUeProc' = s.m_currUeProc
  /\ m_prevUeProc' = s.m_prevUeProc
  /\ m_currReqType' = s.m_currReqType
  /\ m_wakeTime' = s.m_wakeTime
  /\ m_lastRunTime' = s.m_lastRunTime
  /\ m_taskState' = s.m_taskState
  /\ m_pdnLst' = s.m_pdnLst
  /\ m_pCurrPdn' = s.m_pCurrPdn
  /\ jobs' = s.jobs
  /\ stats' = s.stats
  /\ g_seqNum' = s.g_seqNum
  /\ ret' = s.ret
  /\ life' = IF s.thrown THEN "thrown"
              ELSE IF s.crashed THEN "crashed"
              ELSE IF s.ret = ROK_OVER THEN "over" ELSE "live"
  /\ wire' = s.wire
  /\ jobTx' = s.jobTx
  /\ lastAccept' = s.lastAccept

\* The outcomes a run leaves open in the current state: what a job read past
\* the end of m_jobSeq gives, what a comparison with an unassigned member
\* gives, whether the use of an unassigned PDN pointer faults.
PastEnd(i) == i >= JobCount /\ SCN_COMPLETE \notin m_bitmask
GarbageRun(i) == IF PastEnd(i) THEN GarbageJobs ELSE {NoGarbage}
GarbageMsg(i) == IF PastEnd(i) THEN GarbageMsgs ELSE {NoGarbage}
UninitCur(d) ==
  IF m_currUeProc.seqNumber = UNINIT_NUM /\ SCN_COMPLETE \notin m_bitmask
  THEN BOOLEAN ELSE {FALSE}
UninitPrev(d) ==
  IF /\ m_currTaskIndx > 0
     /\ \/ m_prevUeProc.seqNumber = UNINIT_NUM
        \/ m_prevUeProc.reqType = UNINIT /\ gtpGetMsgCategory(d.buf.type) = GTP_MSG_CAT_REQ
        \/ m_prevUeProc.rspType = UNINIT /\ gtpGetMsgCategory(d.buf.type) = GTP_MSG_CAT_RSP
  THEN BOOLEAN ELSE {FALSE}
PdnFault ==
  IF m_pCurrPdn = UNINIT_NUM /\ SCN_COMPLETE \notin m_bitmask THEN BOOLEAN ELSE {FALSE}

\* The scheduler keeps running a session that completed (its dead-call wait)
\* or that still has a job of its scenario or of the overrun to work on.
Followed == SCN_COMPLETE \in m_bitmask \/ m_currTaskIndx < JobCount + MaxOverrun

\* The task is due: it stayed runnable, or its wake time has come.
Due ==
  \/ m_taskState = TASK_STATE_RUNNING
  \/ m_taskState = TASK_STATE_PAUSED /\ now >= m_wakeTime

\* The scheduler runs the task with no argument; k is what fails in this
\* run, if anything.
TimerRunIn(k) ==
  /\ life = "live"
  /\ Followed
  /\ Due
  /\ \E g \in GarbageRun(m_currTaskIndx), f \in PdnFault :
       Commit(run([Cur EXCEPT !.fault = k], NULL,
                  [g |-> g, gn |-> NoGarbage, u1 |-> FALSE, u2 |-> FALSE, f |-> f]))
  /\ event' = [kind |-> "timer", msg |-> NULL.buf, fault |-> k]
  /\ UNCHANGED <<scn, now, dgrams, ueSessions, s_ueSessionMap, cTuns>>

TimerRun == TimerRunIn(NoFault)

\* The dispatcher hands the session one of the datagrams D; k is what fails
\* in the run, if anything.
DatagramEvent(d, k) == [kind |-> "dgram", msg |-> d.buf, fault |-> k]
\* The same with the socket and the source of the datagram on record.
SourceEvent(d, k) ==
  [kind |-> "dgram", msg |-> d.buf, fault |-> k, connId |-> d.connId, peerEp |-> d.peerEp]
DatagramFromEv(D, k, sourced) ==
  /\ life = "live"
  /\ Followed
  /\ dgrams < MaxDgrams
  /\ \E d \in D :
       /\ \E g \in (IF gtpGetMsgCategory(d.buf.type) = GTP_MSG_CAT_REQ
                    THEN GarbageMsg(m_currTaskIndx) ELSE {NoGarbage}),
             gn \in (IF gtpGetMsgCategory(d.buf.type) = GTP_MSG_CAT_REQ
                     THEN GarbageRun(m_currTaskIndx + 1)
                     ELSE GarbageMsg(m_currTaskIndx + 1)),
             u1 \in UninitCur(d), u2 \in UninitPrev(d), f \in PdnFault :
            Commit(run([Cur EXCEPT !.fault = k], d,
                       [g |-> g, gn |-> gn, u1 |-> u1, u2 |-> u2, f |-> f]))
       /\ event' = IF sourced THEN SourceEvent(d, k) ELSE DatagramEvent(d, k)
  /\ dgrams' = dgrams + 1
  /\ UNCHANGED <<scn, now, ueSessions, s_ueSessionMap, cTuns>>

DatagramFromIn(D, k) == DatagramFromEv(D, k, FALSE)

DatagramFrom(D) == DatagramFromIn(D, NoFault)

\* Any datagram may arrive at any time.
Datagram == DatagramFrom(Datagrams)

\* The datagrams of a peer that follows the protocol: the response to the
\* request the session waits on, the request the scenario expects next, or
\* the request it answered last, sent again.
PeerDatagrams ==
  {d \in Datagrams :
     IF gtpGetMsgCategory(d.buf.type) = GTP_MSG_CAT_RSP
     THEN /\ WAITING_FOR_RSP \in m_bitmask
          /\ m_currTaskIndx + 1 < JobCount
          /\ m_jobSeq[m_currTaskIndx + 1].type = JOB_TYPE_SEND
          /\ m_jobSeq[m_currTaskIndx + 2] = Recv(d.buf.type)
          /\ d.buf.seq = m_currUeProc.seqNumber
     ELSE \/ /\ m_bitmask = {}
             /\ m_currTaskIndx < JobCount
             /\ m_jobSeq[m_currTaskIndx + 1] = Recv(d.buf.type)
             /\ d.buf.seq > m_currUeProc.seqNumber
          \/ /\ m_currTaskIndx > 0
             /\ m_prevUeProc.sentMsg # NULL
             /\ m_prevUeProc.reqType = d.buf.type
             /\ m_prevUeProc.seqNumber = d.buf.seq}

PeerDatagram == DatagramFrom(PeerDatagrams)

\* A millisecond passes.  A timer that is due fires first, and a task that
\* is runnable is run in the pass before the clock moves on.
Tick ==
  /\ life = "live"
  /\ now < MaxTime
  /\ ~(m_taskState = TASK_STATE_PAUSED /\ now >= m_wakeTime)
  /\ m_taskState = TASK_STATE_RUNNING => event.kind = "timer"
  /\ now' = now + 1
  /\ event' = [kind |-> "tick", msg |-> NULL.buf, fault |-> NoFault]
  /\ UNCHANGED <<scn, m_currTaskIndx, m_bitmask, m_retryCnt, m_currUeProc,
                 m_prevUeProc, m_currReqType, m_wakeTime, m_lastRunTime, m_taskState,
                 m_pdnLst, m_pCurrPdn, jobs, stats, g_seqNum, ret, life, dgrams,
                 wire, jobTx, lastAccept, ueSessions, s_ueSessionMap, cTuns>>

Next == TimerRun \/ Datagram \/ Tick

Spec == Init /\ [][Next]_vars

\* The session against a peer that follows the protocol.
NextPeer == TimerRun \/ PeerDatagram \/ Tick

SpecPeer == Init /\ [][NextPeer]_vars

\* The same on the scenarios made of whole procedures only.
PairedScenarioIds == {ScnOutbound, ScnOutbound2, ScnInbound}
InitPaired == Init /\ scn \in PairedScenarioIds

SpecPaired == InitPaired /\ [][NextPeer]_vars

\* The same when a send, an encoding or an allocation may fail.
FaultyTimerRun == \E k \in {NoFault} \cup FaultKinds : TimerRunIn(k)
FaultyPeerDatagram == \E k \in {NoFault} \cup FaultKinds : DatagramFromIn(PeerDatagrams, k)
NextFaults == FaultyTimerRun \/ FaultyPeerDatagram \/ Tick

SpecFaults == InitPaired /\ [][NextFaults]_vars

\* Any datagram, with the socket and the source it came from on record; two
\* sequence numbers give a request, its duplicate and its successor.
SourcedDatagrams == {d \in Datagrams : d.buf.seq <= 1}
SourcedDatagram == DatagramFromEv(SourcedDatagrams, NoFault, TRUE)
NextSourced == TimerRun \/ SourcedDatagram \/ Tick
InitSourced == Init /\ scn \in {ScnOutbound, ScnInbound}

SpecSourced == InitSourced /\ [][NextSourced]_vars

\* The inbound scenario against a peer whose 24-bit sequence numbers are
\* about to wrap.
WrapSeqs == {SeqModulus - 1, 0, 1}
WrapDatagrams ==
  {[buf |-> [type |-> t, seq |-> q], connId |-> src.connId, peerEp |-> src.peerEp] :
      t \in MsgTypes, q \in WrapSeqs, src \in Sources}
WrapDatagram == DatagramFrom(WrapDatagrams)
NextWrap == TimerRun \/ WrapDatagram \/ Tick

InitWrap == Init /\ scn = ScnInbound
SpecWrap == InitWrap /\ [][NextWrap]_vars

\* Sessions being created, getting PDNs and being destroyed.
SessionCreated == \E i \in Imsis, t \in IfTypes : createUeSession(i, t)
PdnCreated == \E u \in 1..Len(ueSessions) : PdnCreate(u)
SessionDeleted == \E u \in 1..Len(ueSessions) : DeleteSession(u)
NextSessions == SessionCreated \/ PdnCreated \/ SessionDeleted

InitSessions == Init /\ scn = ScnOutbound
SpecSessions == InitSessions /\ [][NextSessions]_vars

\* Sessions receiving CS_REQ messages with bearer contexts.
CsReqReceived == \E u \in 1..Len(ueSessions), c \in BearerCntxts : CsReqBearers(u, c)
NextBearers == SessionCreated \/ CsReqReceived \/ SessionDeleted
SpecBearers == InitSessions /\ [][NextBearers]_vars

\* One scenario against any peer: one outbound procedure, two outbound
\* procedures, two inbound procedures.
InitOutbound == Init /\ scn = ScnOutbound

SpecOutbound == InitOutbound /\ [][Next]_vars

InitOutbound2 == Init /\ scn = ScnOutbound2

SpecOutbound2 == InitOutbound2 /\ [][Next]_vars

InitInbound == Init /\ scn = ScnInbound

SpecInbound == InitInbound /\ [][Next]_vars

\* --------------------------------------------------------------- claims ---
Waiting == WAITING_FOR_RSP \in m_bitmask
Complete == SCN_COMPLETE \in m_bitmask

\* C1: in every state of a session m_currTaskIndx <= m_jobSeq.size(), and the
\* two are equal exactly when SCN_COMPLETE is set.
C1_IndexAndComplete ==
  life = "live" =>
    /\ m_currTaskIndx <= JobCount
    /\ (m_currTaskIndx = JobCount) <=> Complete

\* C2: WAITING_FOR_RSP set implies m_currUeProc.sentMsg is not null, also in
\* the state in which run() returned ROK_OVER after the retries ran out.
C2_WaitingHasSentMsg ==
  (life # "crashed" /\ Waiting) => m_currUeProc.sentMsg # NULL

\* C3: sessions_created = sessions_succ + sessions_fail + sessions.
C3_StatsBalance ==
  life # "crashed" => stats.created = stats.succ + stats.fail + stats.sessions

\* C4: scenario [Send CS_REQ, Recv CS_RSP] with no datagram arriving: the
\* request goes out again at T3, 2*T3, ..., N3*T3 after the first send and
\* no more; the wake at (N3+1)*T3 ends the session with one timeout counted,
\* N3 retransmissions, one failed session and ROK_OVER.
C4_RetransThenFail ==
  (scn = ScnOutbound /\ dgrams = 0 /\ jobTx[0].time # UNINIT_NUM) =>
    /\ life # "crashed"
    /\ jobs[0].numSnd = 1
    /\ jobs[0].numSndRetrans <= N3Req
    /\ wire.count = 1 + jobs[0].numSndRetrans
    /\ life = "live" =>
         /\ m_lastRunTime = jobTx[0].time + jobs[0].numSndRetrans * T3Time
         /\ jobs[0].numTimeOut = 0
         /\ stats.fail = 0
         /\ wire.last = jobTx[0].d
    /\ life = "over" =>
         /\ m_lastRunTime = jobTx[0].time + (N3Req + 1) * T3Time
         /\ jobs[0].numSndRetrans = N3Req
         /\ jobs[0].numTimeOut = 1
         /\ stats.fail = 1
         /\ ret = ROK_OVER

C4_Witness ==
  /\ scn = ScnOutbound /\ dgrams = 0 /\ life = "over"
  /\ jobs[0].numSndRetrans = N3Req
  /\ now = jobTx[0].time + (N3Req + 1) * T3Time

\* C5: a session that fails on a request for lack of a response has
\* retransmitted that same request N3 times.
C5_FailAfterN3OfThatRequest ==
  (life = "over" /\ m_currTaskIndx \in JobIdx /\ jobs[m_currTaskIndx].numTimeOut > 0) =>
    jobs[m_currTaskIndx].numSndRetrans = N3Req

\* C6: m_retryCnt never exceeds n3-requests.
C6_RetryBounded == m_retryCnt <= N3Req

C6_Witness == m_retryCnt = N3Req /\ life = "live" /\ Waiting

\* C7: scenario [Send CS_REQ, Recv CS_RSP]: a CS_RSP with the sequence number
\* of the request, arriving while the session waits for it after k
\* retransmissions, completes the session: one send and k retransmissions on
\* the Send job, one receive on the Recv job, one more successful session,
\* WAITING_FOR_RSP cleared, the stored request dropped, SCN_COMPLETE set.
C7_ResponseCompletes ==
  [][ ( /\ scn = ScnOutbound /\ life = "live" /\ m_currTaskIndx = 0 /\ Waiting
        /\ event'.kind = "dgram"
        /\ event'.msg = [type |-> CS_RSP, seq |-> m_currUeProc.seqNumber] )
      => ( /\ life' = "live"
           /\ jobs'[0].numSnd = 1
           /\ jobs'[0].numSndRetrans = wire.count - 1
           /\ jobs'[0].numSndRetrans = m_retryCnt
           /\ jobs'[1].numRcv = 1
           /\ stats'.succ = stats.succ + 1
           /\ WAITING_FOR_RSP \notin m_bitmask'
           /\ m_currUeProc'.sentMsg = NULL
           /\ SCN_COMPLETE \in m_bitmask'
           /\ m_currTaskIndx' = JobCount ) ]_vars

C7_Witness ==
  /\ scn = ScnOutbound /\ life = "live" /\ Complete
  /\ event.kind = "dgram" /\ event.msg.type = CS_RSP
  /\ lastAccept.waiting /\ lastAccept.sendIdx = 0
  /\ jobs[0].numSndRetrans = N3Req /\ jobs[1].numRcv = 1 /\ stats.succ = 1

C10_UnexpectedOnRecvJob ==
  ( /\ scn = ScnOutbound /\ life = "live" /\ m_currTaskIndx = 0 /\ Waiting
    /\ dgrams = 1 /\ event.kind = "dgram" /\ event.msg.type = MB_RSP )
  => (jobs[1].numUnexp = 1 /\ jobs[0].numUnexp = 0)

\* C11: while the session waits for a response, the stored request goes out
\* again (m_retryCnt + 1), or the session fails for lack of retries, only in
\* a run that starts T3 or more after the request was last handed to the
\* transport; a datagram that is unexpected or a duplicate of the previous
\* procedure does not bring that run forward.
C11_RetransOnlyAfterT3 ==
  [][ ( /\ life = "live" /\ Waiting
        /\ m_currUeProc.sentMsg # NULL /\ wire.last = m_currUeProc.sentMsg
        /\ \/ m_retryCnt' = m_retryCnt + 1
           \/ life' = "over" )
      => now >= wire.time + T3Time ]_vars

\* C12: a timer wake (no datagram) of a session with SCN_COMPLETE set, at a
\* time that has reached m_wakeTime, ends the session: run() returns
\* ROK_OVER.
C12_DeadCallEndsSession ==
  [][ ( /\ life = "live" /\ Complete /\ now >= m_wakeTime
        /\ event'.kind = "timer" )
      => (ret' = ROK_OVER /\ life' = "over") ]_vars

\* C13: the run in which the scenario completes (by sending the last
\* response or by receiving the last expected response) hands the session
\* back with m_wakeTime = m_lastRunTime + dead-call wait.
C13_CompletionSetsDeadCallWake ==
  [][ (life = "live" /\ ~Complete /\ SCN_COMPLETE \in m_bitmask' /\ life' = "live")
      => m_wakeTime' = m_lastRunTime' + DeadCallWait ]_vars

C15_NotStoppedAfterResponse ==
  [][ ( /\ life = "live" /\ m_currTaskIndx + 1 < JobCount
        /\ m_jobSeq[m_currTaskIndx + 2].type = JOB_TYPE_SEND
        /\ gtpGetMsgCategory(m_jobSeq[m_currTaskIndx + 2].msg) = GTP_MSG_CAT_RSP
        /\ jobs'[m_currTaskIndx + 1].numSnd = jobs[m_currTaskIndx + 1].numSnd + 1
        /\ life' = "live" /\ SCN_COMPLETE \notin m_bitmask' )
      => ( /\ m_taskState' # TASK_STATE_STOPPED
           /\ m_taskState' = TASK_STATE_PAUSED
           /\ m_wakeTime' = 0 ) ]_vars

\* C20: an inbound request is counted as the expected one only when the
\* current job is a Recv job of the request's type and the request's sequence
\* number is greater than m_currUeProc.seqNumber; never while the current job
\* is a Send job waiting for its response.
C20_ExpectedReqNeedsRecvJob ==
  [][ ( /\ life = "live" /\ ~Complete /\ m_currTaskIndx < JobCount
        /\ event'.kind = "dgram"
        /\ gtpGetMsgCategory(event'.msg.type) = GTP_MSG_CAT_REQ
        /\ jobs'[m_currTaskIndx].numRcv = jobs[m_currTaskIndx].numRcv + 1 )
      => ( /\ m_jobSeq[m_currTaskIndx + 1].type = JOB_TYPE_RECV
           /\ m_jobSeq[m_currTaskIndx + 1].msg = event'.msg.type
           /\ event'.msg.seq > m_currUeProc.seqNumber
           /\ ~Waiting ) ]_vars

\* C16: when the transport refuses a datagram of the session, the run reports
\* the session as over, does not newly set WAITING_FOR_RSP and does not
\* count the job as sent.
C16_SendFailureFailsSession ==
  [][ (life = "live" /\ wire'.refused > wire.refused)
      => ( /\ ret' = ROK_OVER /\ life' = "over"
           /\ (WAITING_FOR_RSP \in m_bitmask' => Waiting)
           /\ \A i \in JobIdx : jobs'[i].numSnd = jobs[i].numSnd ) ]_vars

\* C17: no exception leaves run(): a failed encoding or a failed PDN or
\* tunnel creation ends in the task's result.
C17_NoExceptionLeavesRun == life # "thrown"

\* C18: on S11 all the PDNs of a live session refer to one control tunnel
\* whose m_refCount is their number; a destroyed session released that
\* tunnel once per PDN and it was freed when the count reached 0.
C18_SharedTunnelRefCount ==
  \A u \in 1..Len(ueSessions) :
    LET pdnLst == ueSessions[u].m_pdnLst
    IN  (ueSessions[u].ifType = GTP_IF_S11_C_MME /\ pdnLst # <<>>) =>
          /\ \A i \in 1..Len(pdnLst) : pdnLst[i] = pdnLst[1]
          /\ cTuns[pdnLst[1]].m_pUeSession = u
          /\ cTuns[pdnLst[1]].freed = (cTuns[pdnLst[1]].m_refCount = 0)
          /\ IF ueSessions[u].live
             THEN /\ cTuns[pdnLst[1]].m_refCount = Len(pdnLst)
                  /\ cTuns[pdnLst[1]].released = 0
             ELSE /\ cTuns[pdnLst[1]].m_refCount = 0
                  /\ cTuns[pdnLst[1]].released = Len(pdnLst)

C18_Witness ==
  \E u \in 1..Len(ueSessions) :
    /\ ueSessions[u].ifType = GTP_IF_S11_C_MME
    /\ ~ueSessions[u].live
    /\ Len(ueSessions[u].m_pdnLst) >= 2
    /\ cTuns[ueSessions[u].m_pdnLst[1]].freed

\* C19: every live session is the one getUeSession gives for its IMSI.
C19_LiveSessionFound ==
  \A u \in 1..Len(ueSessions) :
    ueSessions[u].live => getUeSession(ueSessions[u].m_imsiKey) = u

\* C21: a response is treated as expected (the index moves on) only if the
\* job at m_currTaskIndx + 1 exists, is a Recv job of the response's type,
\* and the response carries m_currUeProc.seqNumber; stated for a session
\* whose m_currUeProc.seqNumber has been assigned.
C21_ExpectedRspNeedsRecvJob ==
  [][ ( /\ life = "live" /\ ~Complete
        /\ m_currUeProc.seqNumber # UNINIT_NUM
        /\ event'.kind = "dgram"
        /\ gtpGetMsgCategory(event'.msg.type) = GTP_MSG_CAT_RSP
        /\ m_currTaskIndx' # m_currTaskIndx )
      => ( /\ m_currTaskIndx + 1 < JobCount
           /\ m_jobSeq[m_currTaskIndx + 2].type = JOB_TYPE_RECV
           /\ m_jobSeq[m_currTaskIndx + 2].msg = event'.msg.type
           /\ event'.msg.seq = m_currUeProc.seqNumber ) ]_vars

\* a is later than b within a half-window of the 24-bit sequence space.
LaterMod(a, b) == (a - b) % SeqModulus \in 1..(SeqModulus \div 2 - 1)

\* C22: a request of the current Recv job's type whose sequence number is
\* later than m_currUeProc.seqNumber modulo 2^24 is accepted as expected,
\* also across the wrap.
C22_ExpectedReqModular ==
  [][ ( /\ life = "live" /\ ~Complete /\ m_currTaskIndx < JobCount
        /\ m_jobSeq[m_currTaskIndx + 1].type = JOB_TYPE_RECV
        /\ m_currUeProc.seqNumber # UNINIT_NUM
        /\ event'.kind = "dgram"
        /\ event'.msg.type = m_jobSeq[m_currTaskIndx + 1].msg
        /\ gtpGetMsgCategory(event'.msg.type) = GTP_MSG_CAT_REQ
        /\ LaterMod(event'.msg.seq, m_currUeProc.seqNumber) )
      => jobs'[m_currTaskIndx].numRcv = jobs[m_currTaskIndx].numRcv + 1 ]_vars

\* The unexpected and duplicate counters of the jobs from index i on, together.
RECURSIVE DropCount(_, _)
DropCount(j, i) ==
  IF i >= JobCount THEN 0
  ELSE j[i].numUnexp + j[i].numRcvRetrans + DropCount(j, i + 1)

\* C23: a datagram counted as unexpected or as a duplicate of the previous
\* procedure changes one such counter and nothing else of the procedure
\* state: index, flags, retry count, m_currUeProc and the sent and received
\* counters stay, and the run does not end the session.
C23_DropIsFrameOnly ==
  [][ ( /\ life = "live" /\ ~Complete
        /\ event'.kind = "dgram"
        /\ DropCount(jobs', 0) # DropCount(jobs, 0) )
      => ( /\ life' = "live" /\ ret' # ROK_OVER
           /\ DropCount(jobs', 0) = DropCount(jobs, 0) + 1
           /\ m_currTaskIndx' = m_currTaskIndx
           /\ m_bitmask' = m_bitmask
           /\ m_retryCnt' = m_retryCnt
           /\ m_currUeProc' = m_currUeProc
           /\ \A i \in JobIdx : /\ jobs'[i].numSnd = jobs[i].numSnd
                                /\ jobs'[i].numRcv = jobs[i].numRcv
                                /\ jobs'[i].numSndRetrans = jobs[i].numSndRetrans
                                /\ jobs'[i].numTimeOut = jobs[i].numTimeOut ) ]_vars

\* C24: the response sent for an expected request carries the request's
\* sequence number and goes out on the socket the request came in on, to
\* the endpoint it came from; a first transmission of a request goes out on
\* socket 0 to the configured peer.
C24_ResponseGoesBack ==
  [][ /\ ( /\ life = "live" /\ ~Complete /\ m_currTaskIndx + 1 < JobCount
           /\ event'.kind = "dgram"
           /\ gtpGetMsgCategory(event'.msg.type) = GTP_MSG_CAT_REQ
           /\ jobs'[m_currTaskIndx].numRcv = jobs[m_currTaskIndx].numRcv + 1
           /\ jobs'[m_currTaskIndx + 1].numSnd = jobs[m_currTaskIndx + 1].numSnd + 1 )
         => wire'.last = [buf |-> [type |-> m_jobSeq[m_currTaskIndx + 2].msg,
                                   seq |-> event'.msg.seq],
                          connId |-> event'.connId,
                          peerEp |-> event'.peerEp]
      /\ \A i \in JobIdx :
           ( /\ life = "live"
             /\ m_jobSeq[i + 1].type = JOB_TYPE_SEND
             /\ gtpGetMsgCategory(m_jobSeq[i + 1].msg) = GTP_MSG_CAT_REQ
             /\ jobs'[i].numSnd = jobs[i].numSnd + 1 )
           => ( /\ wire'.last = jobTx'[i].d
                /\ wire'.last.connId = 0
                /\ wire'.last.peerEp = DefaultPeer
                /\ wire'.last.buf.type = m_jobSeq[i + 1].msg ) ]_vars

C24_Witness ==
  /\ scn = ScnInbound /\ life = "live"
  /\ event.kind = "dgram" /\ event.msg.type = MB_REQ /\ event.peerEp # DefaultPeer
  /\ jobs[2].numRcv = 1 /\ jobs[3].numSnd = 1
  /\ wire.last.buf.type = MB_RSP /\ wire.last.peerEp = event.peerEp
  /\ Len(m_pdnLst) = 1

\* C25: every read of m_jobSeq is within the scenario: the read of
\* m_jobSeq[m_currTaskIndx] that follows each advance of the index, the read
\* of m_jobSeq[m_currTaskIndx + 1] when a response arrives, and the read of
\* the current job on a timer wake.
C25_JobReadsInRange ==
  [][ /\ (life = "live" /\ m_currTaskIndx' # m_currTaskIndx) => m_currTaskIndx' < JobCount
      /\ ( /\ life = "live" /\ ~Complete /\ event'.kind = "dgram"
           /\ gtpGetMsgCategory(event'.msg.type) = GTP_MSG_CAT_RSP )
         => m_currTaskIndx + 1 < JobCount
      /\ (life = "live" /\ ~Complete /\ event'.kind = "timer")
         => m_currTaskIndx < JobCount ]_vars

\* The duplicate counters of the jobs from index i on, together.
RECURSIVE RetransCount(_, _)
RetransCount(j, i) ==
  IF i >= JobCount THEN 0 ELSE j[i].numRcvRetrans + RetransCount(j, i + 1)

\* C26: when a request is counted as a duplicate of the previous
\* procedure's request, in the receive path or in the dead call, and that
\* procedure has had its response, m_prevUeProc.sentMsg is the response sent
\* for that request.
C26_DuplicateHasStoredResponse ==
  [][ ( /\ life = "live"
        /\ m_prevUeProc.rspType # UNINIT
        /\ event'.kind = "dgram"
        /\ gtpGetMsgCategory(event'.msg.type) = GTP_MSG_CAT_REQ
        /\ RetransCount(jobs', 0) # RetransCount(jobs, 0) )
      => ( /\ m_prevUeProc.sentMsg # NULL
           /\ m_prevUeProc.sentMsg.buf = [type |-> m_prevUeProc.rspType,
                                          seq |-> event'.msg.seq] ) ]_vars

\* C27: a response is accepted as expected (the index moves on) only while
\* WAITING_FOR_RSP is set, and then the Recv job has not received more than
\* its Send job has sent; stated for a session whose m_currUeProc.seqNumber
\* has been assigned.
C27_AcceptOnlyWhileWaiting ==
  [][ ( /\ life = "live" /\ ~Complete
        /\ m_currUeProc.seqNumber # UNINIT_NUM
        /\ m_currTaskIndx + 1 < JobCount
        /\ event'.kind = "dgram"
        /\ gtpGetMsgCategory(event'.msg.type) = GTP_MSG_CAT_RSP
        /\ m_currTaskIndx' # m_currTaskIndx )
      => ( /\ Waiting
           /\ jobs'[m_currTaskIndx + 1].numRcv <= jobs'[m_currTaskIndx].numSnd ) ]_vars

\* C28: every bearer object a session created is freed at most once and
\* is never read after it has been freed, whatever the number of PDNs of
\* the session and the EBIs its CS_REQ messages declared.
C28_BearersFreedOnce ==
  \A u \in 1..Len(ueSessions) : \A b \in 1..Len(ueSessions[u].bearers) :
     /\ ueSessions[u].bearers[b].frees <= 1
     /\ ueSessions[u].bearers[b].staleReads = 0
====
